---- MODULE Spec2Model ----
(***************************************************************************)
(* The bootstrap sequence of src/src/vector/index.ts: the async function   *)
(* start(), the promises it starts and awaits, the compatibility gate, and *)
(* the start().catch handler that attaches the static error iframe.        *)
(*                                                                         *)
(* One action is one run-to-completion step of the JavaScript event loop:  *)
(* the code start() executes between two awaits, the settling of one       *)
(* promise by its loader, the user's click on the incompatible-browser     *)
(* surface, or a page reload.                                              *)
(***************************************************************************)
EXTENDS Naturals, Sequences, FiniteSets, TLC

(* ------------------------------------------------------------------ *)
(* Bounds                                                              *)
(* ------------------------------------------------------------------ *)

\* How often the user may press the confirmation button of one surface.
MaxConfirm == 2

\* How many arguments a call of settled() has at most.
MaxPromises == 4

\* How many features Modernizr has tested before the three tests of
\* checkBrowserFeatures() are added.
MaxFeatures == 2

(* ------------------------------------------------------------------ *)
(* JavaScript values                                                   *)
(* ------------------------------------------------------------------ *)

Undefined == "undefined"
Null == "null"

\* JavaScript truthiness of a string-or-nullish value (Boolean(x), x || y, if (x)).
Truthy(x) == x \notin {Undefined, Null, ""}

\* x || y
OrElse(x, y) == IF Truthy(x) THEN x ELSE y

\* String(true)
StringOfTrue == "true"

\* The `err` member of a rejection reason: absent, or an Error that may be a
\* SyntaxError and carries a message.
NoErr == [defined |-> FALSE, isSyntaxError |-> FALSE, message |-> Undefined]
ErrObj(syntax, msg) == [defined |-> TRUE, isSyntaxError |-> syntax, message |-> msg]

\* A rejection reason: an object with an optional translatedMessage and an
\* optional err member.
Reason(tm, e) == [translatedMessage |-> tm, err |-> e]
NoReason == Reason(Undefined, NoErr)

\* Reasons a loader on the critical path may reject with.
PlainError == Reason(Undefined, NoErr)
TranslatedError == Reason("translated detail", NoErr)
EmptyTranslatedError == Reason("", NoErr)

\* The reason the log storage (rageshake, setupLogStorage) rejects with.
LogStorageError == Reason("IndexedDB is not available", NoErr)

\* Reasons the config load may reject with.
ConfigSyntaxError == Reason(Undefined, ErrObj(TRUE, "Unexpected token } in JSON"))
ConfigSyntaxErrorNoMessage == Reason(Undefined, ErrObj(TRUE, ""))
ConfigFetchError == Reason(Undefined, ErrObj(FALSE, "404"))
ConfigOtherError == Reason(Undefined, NoErr)

(* ------------------------------------------------------------------ *)
(* The promises of the run                                             *)
(* ------------------------------------------------------------------ *)

Promises == {"init", "rageshake", "olm", "config", "persistLogs", "language",
             "theme", "skin", "loadApp", "showError"}

ReasonsOf(p) ==
    CASE p = "config" -> {ConfigSyntaxError, ConfigSyntaxErrorNoMessage,
                          ConfigFetchError, ConfigOtherError}
      [] p = "loadApp" -> {PlainError, TranslatedError, EmptyTranslatedError}
      [] p = "olm" -> {PlainError, TranslatedError}
      [] p \in {"rageshake", "persistLogs"} -> {LogStorageError}
      [] OTHER -> {PlainError}

\* navigator.userAgent: a desktop, an iOS and an Android browser.
DesktopAgent == "Mozilla/5.0 (X11; Linux x86_64)"
IosAgent == "Mozilla/5.0 (iPhone; CPU iPhone OS 14_0 like Mac OS X)"
AndroidAgent == "Mozilla/5.0 (Linux; Android 10)"
UserAgents == {DesktopAgent, IosAgent, AndroidAgent}

\* window.MSStream: undefined, or the object some Microsoft browsers define.
MSStreams == {Undefined, "[object MSStream]"}

ClientSecrets == {Undefined, "", "xyz"}
Locations == {"", "/room/!abc:example.org"}
Fragment(secret, location) == [params |-> [client_secret |-> secret], location |-> location]
Fragments == { Fragment(cs, l) : cs \in ClientSecrets, l \in Locations }
OptOut == "element_mobile_redirect_to_guide=false"
Cookies == {"", OptOut}

VARIABLES
    supportedBrowser,   \* const supportedBrowser = checkBrowserFeatures()
    hasLocalStorage,    \* window.localStorage is available
    storage,            \* localStorage item mx_accepts_unsupported_browser
    fragparts,          \* parseQsFromFragment(window.location)
    userAgent,          \* navigator.userAgent
    MSStream,           \* window.MSStream
    cookie,             \* document.cookie
    pc,                 \* where start() is suspended
    prom,               \* state of every promise
    reason,             \* rejection reason of every rejected promise
    acceptBrowser,      \* the local of that name, assigned at lines 154-157
    gate,               \* the promise of line 163: "none", "pending", "resolved"
    confirms,           \* times the confirmation callback ran in this run
    calls,              \* the init-module functions invoked, in order
    loadAppArgs,        \* arguments of every loadApp call
    showErrorArgs,      \* arguments of every showError call
    console,            \* console.error / console.log lines
    href,               \* window.location.href once assigned
    iframe,             \* src of the iframe attached by start().catch
    Modernizr,          \* window.Modernizr when line 83 runs
    promises,           \* settled(...promises): the state of every argument
    awaiting,           \* settled(): the argument its loop is suspended on
    settledPromise,     \* settled(): the state of the promise it returned
    completed           \* settled(): its arguments in the order they settled

vars == <<supportedBrowser, hasLocalStorage, storage, fragparts, userAgent, MSStream,
          cookie, pc, prom, reason, acceptBrowser, gate, confirms, calls, loadAppArgs,
          showErrorArgs, console, href, iframe, Modernizr, promises, awaiting,
          settledPromise, completed>>

environment == <<supportedBrowser, hasLocalStorage, fragparts, userAgent, MSStream, cookie,
                 Modernizr>>

\* A call of settled() studied on its own.
settledCall == <<promises, awaiting, settledPromise, completed>>

(* ------------------------------------------------------------------ *)
(* Pure helpers of start()                                             *)
(* ------------------------------------------------------------------ *)

\* _t(key, {message}) : the translated string, kept as key plus substitution.
_t(key, message) == [text |-> key, message |-> message]
Raw(s) == [text |-> s, message |-> Undefined]

LogError(what, e) == [level |-> "error", text |-> what, err |-> e]
LogInfo(what) == [level |-> "log", text |-> what, err |-> NoReason]

Settled(p) == prom[p] \in {"fulfilled", "rejected"}

\* line 121: fragparts.params.client_secret || fragparts.location.length > 0
preventRedirect(fp) == Truthy(fp.params.client_secret) \/ fp.location # ""

\* line 124: /iPad|iPhone|iPod/.test(navigator.userAgent) && !window.MSStream
isIos(ua, ms) == ua = IosAgent /\ ~Truthy(ms)

\* Mutation: the pattern written in lower case, /android/, which no user agent
\* matches.
isAndroidLowerCase(ua) == ua = "mozilla/5.0 (linux; android 10)"

\* line 125: /Android/.test(navigator.userAgent)
isAndroid(ua) == ua = AndroidAgent

\* Mutation: the cookie is searched for the wrong value.
noOptOutWrongValue(c) == c # "element_mobile_redirect_to_guide=true"

\* line 127: document.cookie.indexOf("element_mobile_redirect_to_guide=false") === -1
noOptOut(c) == c # OptOut

\* lines 123-131: whether start() assigns window.location.href and returns
redirects(fp, ua, ms, c) ==
    /\ ~preventRedirect(fp)
    /\ isIos(ua, ms) \/ isAndroid(ua)
    /\ noOptOut(c)

\* start() has returned or thrown and its catch handler has run
Terminal == {"done", "redirected", "fatal"}

\* The promise start() is suspended on (lines 106, 113, 139, 152, 163, 178,
\* 199-202, 207, 211, 183/192/216). At "settled_p" it is the promise of a
\* settled() call whose loop awaits p; at "after_p" that loop has passed its
\* last argument p, settled() has returned and the continuation of start() is
\* queued.
awaited ==
    CASE pc = "import" -> "init"
      [] pc \in {"settled_rageshake", "after_rageshake"} -> "rageshake"
      [] pc \in {"settled_config", "after_config", "await_config"} -> "config"
      [] pc \in {"settled_skin", "await_skin"} -> "skin"
      [] pc \in {"settled_theme", "await_theme"} -> "theme"
      [] pc \in {"settled_language", "after_language", "await_language"} -> "language"
      [] pc = "await_olm" -> "olm"
      [] pc \in {"settled_persistLogs", "after_persistLogs"} -> "persistLogs"
      [] pc = "await_loadApp" -> "loadApp"
      [] pc \in {"return_showError", "catch_showError"} -> "showError"
      [] OTHER -> "none"

\* The continuation of start() is in the microtask queue: the promise it awaits
\* has settled. Microtasks run before the next task of the event loop, so no
\* loader event and no user event is handled until start() has run on.
startRunnable == awaited \in Promises /\ Settled(awaited)

\* window.localStorage.getItem("mx_accepts_unsupported_browser")
getItem == storage

\* Mutation: a browser without localStorage is taken to have accepted.
computeAcceptBrowserWithoutStorage ==
    IF ~supportedBrowser THEN (IF hasLocalStorage THEN Truthy(getItem) ELSE TRUE)
    ELSE supportedBrowser

\* Mutation: the stored flag is not read.
computeAcceptBrowserVerdictOnly == supportedBrowser

\* lines 154-157: the value of acceptBrowser when the gate is reached
computeAcceptBrowser ==
    IF ~supportedBrowser /\ hasLocalStorage THEN Truthy(getItem) ELSE supportedBrowser

\* Mutation: the promise of line 163 is created but not awaited.
afterGateNotAwaited(accept) == "await_config"

\* lines 162-174: where start() goes on after the gate: it awaits the promise of
\* line 163 unless the browser is accepted
afterGate(accept) == IF accept THEN "await_config" ELSE "gate"

\* Mutation: the callback does not write the flag.
setItemOnConfirmSkipped == storage

\* lines 167-169: the store after the confirmation callback
setItemOnConfirm == IF hasLocalStorage THEN StringOfTrue ELSE storage

\* Mutation: settled() without its try/catch.
settledOutcomeUncaught(p) == IF prom[p] = "rejected" THEN "throw" ELSE "continue"

\* await settled(p): a rejection is logged and swallowed (lines 33-39)
settledOutcome(p) == "continue"

\* Mutation: the strict awaits replaced by settled().
awaitOutcomeSwallowed(p) == "continue"

\* await p: a rejection is thrown into the enclosing try (lines 178, 199-202, 211)
awaitOutcome(p) == IF prom[p] = "rejected" THEN "throw" ELSE "continue"

\* the console after settled(p) has passed p
settledLog(con, p) ==
    IF prom[p] = "rejected" THEN Append(con, LogError("", reason[p])) ELSE con

MisconfiguredTitle == _t("Your Element is misconfigured", Undefined)
InvalidJsonLine ==
    _t("Your Element configuration contains invalid JSON. Please correct the problem and reload the page.",
       Undefined)
ParserLine(message) == _t("The message from the parser is: %(message)s", message)
UnableToLoadConfig ==
    _t("Unable to load config file: please refresh the page to try again.", Undefined)
UnexpectedError ==
    _t("Unexpected error preparing the app. See console for details.", Undefined)

\* Mutation: the instanceof SyntaxError test is left out.
configErrorArgsAnyErr(error) ==
    IF error.err.defined
    THEN [title |-> MisconfiguredTitle,
          messages |-> <<InvalidJsonLine,
                         ParserLine(OrElse(error.err.message, "Invalid JSON"))>>]
    ELSE [title |-> UnableToLoadConfig, messages |-> <<>>]

\* lines 181-192: the arguments of showError in the config catch block
configErrorArgs(error) ==
    IF error.err.defined /\ error.err.isSyntaxError
    THEN [title |-> MisconfiguredTitle,
          messages |-> <<InvalidJsonLine,
                         ParserLine(OrElse(error.err.message, "Invalid JSON"))>>]
    ELSE [title |-> UnableToLoadConfig, messages |-> <<>>]

\* Mutation: the translatedMessage of the error is ignored.
catchErrorArgsDefaultOnly(err) ==
    [title |-> MisconfiguredTitle, messages |-> <<UnexpectedError>>]

\* lines 216-218: the arguments of showError in the outer catch block
catchErrorArgs(err) ==
    [title |-> MisconfiguredTitle,
     messages |-> << IF Truthy(err.translatedMessage)
                     THEN Raw(err.translatedMessage)
                     ELSE UnexpectedError >>]

\* Mutation: loadApp is called without an argument.
loadAppArgumentMissing(fp) == [client_secret |-> Undefined]

\* line 211: the argument of loadApp
loadAppArgument(fp) == fp.params

\* Mutation: the document is chosen by the acceptance, stored flag included.
iframeSrcByAcceptance ==
    IF supportedBrowser \/ Truthy(storage) THEN "static/unable-to-load.html"
    ELSE "static/incompatible-browser.html"

\* line 231: the static document of the iframe
iframeSrc ==
    IF supportedBrowser THEN "static/unable-to-load.html"
    ELSE "static/incompatible-browser.html"

(* ------------------------------------------------------------------ *)
(* checkBrowserFeatures() (lines 42-81)                                *)
(* ------------------------------------------------------------------ *)

\* What a feature test of Modernizr may have left under its key.
FeatureValues == {"true", "false", Undefined}

\* What the i-th of the three tests added at lines 52-61 returns: a boolean,
\* and for the second (lines 55-58, window.RegExp?.prototype && ...) also
\* undefined, when window.RegExp is absent.
AddedValues(i) == IF i = 2 THEN {"true", "false", Undefined} ELSE {"true", "false"}

\* The keys Modernizr has set before line 52, in the order it set them.
BuiltinKeys == <<"es6collections", "flexbox", "cssanimations", "svg", "json">>

\* lines 52-61: the keys of the three added tests, in the order of addTest
AddedKeys == <<"promiseprototypefinally", "regexpdotall", "objectfromentries">>

\* window.Modernizr: undefined, or an object holding the results of the tests it
\* ran (features) and what the three added tests will return (added).
ModernizrOf(features, added) == [defined |-> TRUE, features |-> features, added |-> added]
NoModernizr == [defined |-> FALSE, features |-> <<>>, added |-> <<"true", "true", "true">>]

RECURSIVE SeqsUpTo(_, _)
SeqsUpTo(S, n) ==
    IF n = 0 THEN {<<>>}
    ELSE LET shorter == SeqsUpTo(S, n - 1)
         IN  shorter \cup {Append(q, x) : q \in shorter, x \in S}

Modernizrs ==
    {NoModernizr} \cup
    {ModernizrOf(f, a) : f \in SeqsUpTo(FeatureValues, MaxFeatures),
                         a \in {b \in [1..3 -> FeatureValues] :
                                    \A i \in 1..3 : b[i] \in AddedValues(i)}}

\* A browser that has every feature and one that lacks Object.fromEntries.
ModernBrowser == ModernizrOf(<<"true">>, <<"true", "true", "true">>)
OldBrowser == ModernizrOf(<<"true">>, <<"true", "true", "false">>)

\* line 63: Object.keys(window.Modernizr) after the three addTest calls, each key
\* with the value stored under it
featureList(M) ==
    [i \in 1..Len(M.features) |-> [key |-> BuiltinKeys[i], value |-> M.features[i]]]
    \o [i \in 1..3 |-> [key |-> AddedKeys[i], value |-> M.added[i]]]

\* console.error(format, key)
LogFormat(format, key) == [level |-> "error", text |-> format, err |-> NoReason, key |-> key]

NoModernizrLine == LogFormat("Cannot check features - Modernizr global is missing.", Undefined)
NoResultLine(key) ==
    LogFormat("Looked for feature '%s' but Modernizr has no results for this. Has it been configured correctly?",
              key)
MissingFeatureLine(key) == LogFormat("Browser missing feature: '%s'", key)

\* Mutation: the loop returns at the first false value.
RECURSIVE featureLoopFirstMissing(_, _, _, _)
featureLoopFirstMissing(list, i, featureComplete, log) ==
    IF i > Len(list)
    THEN [returns |-> featureComplete, log |-> log, read |-> Len(list)]
    ELSE IF list[i].value = Undefined
    THEN [returns |-> FALSE, log |-> Append(log, NoResultLine(list[i].key)), read |-> i]
    ELSE IF list[i].value = "false"
    THEN [returns |-> FALSE, log |-> Append(log, MissingFeatureLine(list[i].key)), read |-> i]
    ELSE featureLoopFirstMissing(list, i + 1, featureComplete, log)

\* Mutation: an undefined value is logged and the loop goes on.
RECURSIVE featureLoopPastUndefined(_, _, _, _)
featureLoopPastUndefined(list, i, featureComplete, log) ==
    IF i > Len(list)
    THEN [returns |-> featureComplete, log |-> log, read |-> Len(list)]
    ELSE IF list[i].value = Undefined
    THEN featureLoopPastUndefined(list, i + 1, FALSE, Append(log, NoResultLine(list[i].key)))
    ELSE IF list[i].value = "false"
    THEN featureLoopPastUndefined(list, i + 1, FALSE,
                                  Append(log, MissingFeatureLine(list[i].key)))
    ELSE featureLoopPastUndefined(list, i + 1, featureComplete, log)

\* lines 65-80: the loop from index i on, with featureComplete and the console so
\* far; `read` is the number of keys whose value has been read.
RECURSIVE featureLoop(_, _, _, _)
featureLoop(list, i, featureComplete, log) ==
    IF i > Len(list)
    THEN [returns |-> featureComplete, log |-> log, read |-> Len(list)]
    ELSE IF list[i].value = Undefined
    THEN [returns |-> FALSE, log |-> Append(log, NoResultLine(list[i].key)), read |-> i]
    ELSE IF list[i].value = "false"
    THEN featureLoop(list, i + 1, FALSE, Append(log, MissingFeatureLine(list[i].key)))
    ELSE featureLoop(list, i + 1, featureComplete, log)

\* Mutation: window.Modernizr is not tested before it is used.
checkBrowserFeaturesUnguarded(M) == featureLoop(featureList(M), 1, TRUE, <<>>)

\* lines 42-81: what checkBrowserFeatures() returns and logs
checkBrowserFeatures(M) ==
    IF ~M.defined
    THEN [returns |-> FALSE, log |-> <<NoModernizrLine>>, read |-> 0]
    ELSE featureLoop(featureList(M), 1, TRUE, <<>>)

(* ------------------------------------------------------------------ *)
(* Initial state: the page has been loaded and start() has been called *)
(* and is suspended on the import of ./init (lines 83, 106, 222).      *)
(* ------------------------------------------------------------------ *)

\* The per-run state when start() has just been called.
freshRun ==
    [pc |-> "import",
     prom |-> [p \in Promises |-> IF p = "init" THEN "pending" ELSE "unstarted"],
     reason |-> [p \in Promises |-> NoReason],
     acceptBrowser |-> FALSE, gate |-> "none", confirms |-> 0, calls |-> <<>>,
     loadAppArgs |-> <<>>, showErrorArgs |-> <<>>,
     console |-> checkBrowserFeatures(Modernizr).log,
     href |-> Undefined, iframe |-> Undefined]


\* The state when start() has just been called, for a page loaded with one of
\* the given fragments in one of the given browsers.
InitWith(fragments, agents, msstreams, cookies) ==
    /\ Modernizr \in {ModernBrowser, OldBrowser}
    /\ supportedBrowser = checkBrowserFeatures(Modernizr).returns
    /\ hasLocalStorage \in BOOLEAN
    /\ storage \in (IF hasLocalStorage THEN {Null, StringOfTrue} ELSE {Null})
    /\ fragparts \in fragments
    /\ userAgent \in agents
    /\ MSStream \in msstreams
    /\ cookie \in cookies
    /\ pc = freshRun.pc
    /\ prom = freshRun.prom
    /\ reason = freshRun.reason
    /\ acceptBrowser = freshRun.acceptBrowser
    /\ gate = freshRun.gate
    /\ confirms = freshRun.confirms
    /\ calls = freshRun.calls
    /\ loadAppArgs = freshRun.loadAppArgs
    /\ showErrorArgs = freshRun.showErrorArgs
    /\ console = freshRun.console
    /\ href = freshRun.href
    /\ iframe = freshRun.iframe
    /\ promises = <<>>
    /\ awaiting = 1
    /\ settledPromise = "fulfilled"
    /\ completed = <<>>

\* A desktop browser, with and without a deep link, and an Android browser that
\* is sent to the mobile guide.
Init ==
    \/ InitWith({Fragment(Undefined, ""), Fragment("xyz", "/room/!abc:example.org")},
                {DesktopAgent}, {Undefined}, {""})
    \/ InitWith({Fragment(Undefined, "")}, {AndroidAgent}, {Undefined}, {""})

\* Every fragment, browser and cookie.
InitRedirect == InitWith(Fragments, UserAgents, MSStreams, Cookies)

(* ------------------------------------------------------------------ *)
(* The loaders: every started promise may fulfil or reject at any time *)
(* while start() is running. Once the run has ended nothing observes   *)
(* the promises any more and the model stops following them.           *)
(* ------------------------------------------------------------------ *)

\* A loader fulfils its promise. Evaluating the init module creates
\* rageshakePromise.
Fulfil ==
    \E p \in Promises :
        /\ pc \notin Terminal
        /\ ~startRunnable
        /\ prom[p] = "pending"
        /\ prom' = [q \in Promises |->
                       IF q = p THEN "fulfilled"
                       ELSE IF p = "init" /\ q = "rageshake" THEN "pending"
                       ELSE prom[q]]
        /\ UNCHANGED <<environment, settledCall, storage, pc, reason, acceptBrowser, gate, confirms,
                       calls, loadAppArgs, showErrorArgs, console, href, iframe>>

\* A loader rejects its promise with one of its reasons.
RejectOf(p) ==
    \E e \in ReasonsOf(p) :
        /\ pc \notin Terminal
        /\ ~startRunnable
        /\ prom[p] = "pending"
        /\ prom' = [prom EXCEPT ![p] = "rejected"]
        /\ reason' = [reason EXCEPT ![p] = e]
        /\ UNCHANGED <<environment, settledCall, storage, pc, acceptBrowser, gate, confirms,
                       calls, loadAppArgs, showErrorArgs, console, href, iframe>>

Reject == \E p \in Promises : RejectOf(p)

\* Only what precedes the redirect check fails: the import and rageshake.
RejectEarly == \E p \in {"init", "rageshake"} : RejectOf(p)

(* ------------------------------------------------------------------ *)
(* start()                                                             *)
(* ------------------------------------------------------------------ *)

\* Mutation: no outer try/catch, the error rejects start() and reaches the handler
\* of start().catch.
CatchMissing(err, con) ==
    /\ console' = Append(con, LogError("", err))
    /\ iframe' = iframeSrc
    /\ pc' = "fatal"
    /\ UNCHANGED <<calls, showErrorArgs, prom>>

\* The outer catch block (lines 212-219), entered with the console so far.
Catch(err, con) ==
    /\ console' = Append(con, LogError("", err))
    /\ calls' = Append(calls, "showError")
    /\ showErrorArgs' = Append(showErrorArgs, catchErrorArgs(err))
    /\ prom' = [prom EXCEPT !["showError"] = "pending"]
    /\ pc' = "catch_showError"
    /\ UNCHANGED iframe

\* lines 222-241: start() rejects with err and the handler of start().catch
\* attaches the iframe.
FatalErrorPresenter(err) ==
    /\ console' = Append(console, LogError("", err))
    /\ iframe' = iframeSrc
    /\ pc' = "fatal"

\* lines 93-109: the import settles; a rejection rejects start() itself.
ImportDone ==
    /\ pc = "import"
    /\ Settled("init")
    /\ IF prom["init"] = "rejected"
       THEN FatalErrorPresenter(reason["init"])
       ELSE /\ pc' = "settled_rageshake"
            /\ UNCHANGED <<console, iframe>>
    /\ UNCHANGED <<environment, settledCall, storage, prom, reason, acceptBrowser, gate, confirms,
                   calls, loadAppArgs, showErrorArgs, href>>

\* lines 115-139: settled(rageshakePromise) has returned and start() runs on: the
\* redirect check, then loadOlm, preparePlatform and loadConfig.
RedirectCheck ==
    /\ pc = "after_rageshake"
    /\ IF redirects(fragparts, userAgent, MSStream, cookie)
       THEN /\ href' = "mobile_guide/"
            /\ pc' = "redirected"
            /\ UNCHANGED <<prom, calls>>
       ELSE /\ calls' = calls \o <<"loadOlm", "preparePlatform", "loadConfig">>
            /\ prom' = [prom EXCEPT !["olm"] = "pending", !["config"] = "pending"]
            /\ pc' = "settled_config"
            /\ UNCHANGED href
    /\ UNCHANGED <<environment, settledCall, storage, reason, acceptBrowser, gate, confirms,
                   loadAppArgs, console, showErrorArgs, iframe>>

\* Mutation: the config load is not awaited before the four loads are started.
ConfigSettledNotAwaited ==
    /\ pc = "settled_config"
    /\ UNCHANGED <<iframe, console>>
    /\ calls' = calls \o <<"setupLogStorage", "loadLanguage", "loadTheme", "loadSkin">>
    /\ prom' = [prom EXCEPT !["persistLogs"] = "pending", !["language"] = "pending",
                            !["theme"] = "pending", !["skin"] = "pending"]
    /\ pc' = "settled_skin"
    /\ UNCHANGED showErrorArgs
    /\ UNCHANGED <<environment, settledCall, storage, reason, acceptBrowser, gate, confirms,
                   loadAppArgs, href>>

\* lines 143-152: settled(loadConfigPromise) has returned and start() runs on: it
\* starts the log storage, the language, the theme and the skin.
ConfigSettled ==
    /\ pc = "after_config"
    /\ calls' = calls \o <<"setupLogStorage", "loadLanguage", "loadTheme", "loadSkin">>
    /\ prom' = [prom EXCEPT !["persistLogs"] = "pending", !["language"] = "pending",
                            !["theme"] = "pending", !["skin"] = "pending"]
    /\ pc' = "settled_skin"
    /\ UNCHANGED <<environment, settledCall, storage, reason, acceptBrowser, gate, confirms,
                   loadAppArgs, href, console, showErrorArgs, iframe>>

\* Mutation: the loop of settled() goes on without awaiting its argument.
SettledLoopNotAwaited(p, next) ==
    /\ pc = "settled_" \o p
    /\ UNCHANGED iframe
    /\ console' = settledLog(console, p)
    /\ pc' = next
    /\ UNCHANGED <<prom, calls, showErrorArgs>>
    /\ UNCHANGED <<environment, settledCall, storage, reason, acceptBrowser, gate, confirms,
                   loadAppArgs, href>>

\* lines 33-39 in the calls of lines 113, 139, 152 and 207: the awaited argument
\* p has settled and the loop of settled() takes its turn; a rejection is logged.
\* After the last argument settled() returns and start() is queued to run on.
SettledLoop(p, next) ==
    /\ pc = "settled_" \o p
    /\ Settled(p)
    /\ IF settledOutcome(p) = "throw" /\ prom[p] = "rejected"
       THEN Catch(reason[p], console)
       ELSE /\ UNCHANGED iframe
            /\ console' = settledLog(console, p)
            /\ pc' = next
            /\ UNCHANGED <<prom, calls, showErrorArgs>>
    /\ UNCHANGED <<environment, settledCall, storage, reason, acceptBrowser, gate, confirms,
                   loadAppArgs, href>>

RageshakeSettled == SettledLoop("rageshake", "after_rageshake")
LoadConfigSettled == SettledLoop("config", "after_config")
SkinSettled == SettledLoop("skin", "settled_theme")
ThemeSettled == SettledLoop("theme", "settled_language")
LanguageSettled == SettledLoop("language", "after_language")
PersistLogsSettled == SettledLoop("persistLogs", "after_persistLogs")

\* lines 154-173: settled(skin, theme, language) has returned and start() runs
\* on to the compatibility gate.
CompatibilityGate ==
    /\ pc = "after_language"
    /\ acceptBrowser' = computeAcceptBrowser
    /\ IF computeAcceptBrowser
       THEN /\ pc' = afterGate(TRUE)
            /\ UNCHANGED <<gate, calls, console>>
       ELSE /\ console' = Append(console,
                                 LogError("Browser is missing required features.", NoReason))
            /\ calls' = Append(calls, "showIncompatibleBrowser")
            /\ gate' = "pending"
            /\ pc' = afterGate(FALSE)
    /\ UNCHANGED <<environment, settledCall, storage, reason, confirms, loadAppArgs, href,
                   prom, showErrorArgs, iframe>>

\* Mutation: the callback stores the flag and logs, and does not call resolve().
ConfirmWithoutResolve ==
    /\ gate # "none"
    /\ pc \notin Terminal
    /\ ~startRunnable
    /\ confirms < MaxConfirm
    /\ storage' = setItemOnConfirm
    /\ console' = Append(console, LogInfo("User accepts the compatibility risks."))
    /\ confirms' = confirms + 1
    /\ UNCHANGED <<environment, settledCall, prom, reason, acceptBrowser, calls, loadAppArgs,
                   showErrorArgs, href, iframe, gate, pc>>

\* lines 166-172: the user confirms on the incompatible-browser surface. The
\* callback stores the flag and resolves the promise of line 163; start(), if it
\* is suspended there, goes on to line 176.
Confirm ==
    /\ gate # "none"
    /\ pc \notin Terminal
    /\ ~startRunnable
    /\ confirms < MaxConfirm
    /\ storage' = setItemOnConfirm
    /\ console' = Append(console, LogInfo("User accepts the compatibility risks."))
    /\ gate' = "resolved"
    /\ confirms' = confirms + 1
    /\ pc' = IF pc = "gate" THEN "await_config" ELSE pc
    /\ UNCHANGED <<environment, settledCall, prom, reason, acceptBrowser, calls, loadAppArgs,
                   showErrorArgs, href, iframe>>

\* Mutation: the config load is awaited after the critical path, not before it.
ConfigHardCheckSkipped ==
    /\ pc = "await_config"
    /\ Settled("config")
    /\ pc' = "await_olm"
    /\ UNCHANGED <<calls, showErrorArgs, prom>>
    /\ UNCHANGED <<environment, settledCall, storage, reason, acceptBrowser, gate, confirms,
                   loadAppArgs, console, href, iframe>>

\* lines 176-193: the config hard-check.
ConfigHardCheck ==
    /\ pc = "await_config"
    /\ Settled("config")
    /\ IF awaitOutcome("config") = "throw"
       THEN /\ calls' = Append(calls, "showError")
            /\ showErrorArgs' = Append(showErrorArgs, configErrorArgs(reason["config"]))
            /\ prom' = [prom EXCEPT !["showError"] = "pending"]
            /\ pc' = "return_showError"
       ELSE /\ pc' = "await_olm"
            /\ UNCHANGED <<calls, showErrorArgs, prom>>
    /\ UNCHANGED <<environment, settledCall, storage, reason, acceptBrowser, gate, confirms,
                   loadAppArgs, console, href, iframe>>

\* Mutation: the promise is not awaited.
CriticalAwaitNotAwaited(p, next) ==
    /\ pc = "await_" \o p
    /\ UNCHANGED iframe
    /\ pc' = next
    /\ UNCHANGED <<prom, calls, showErrorArgs, console>>
    /\ UNCHANGED <<environment, settledCall, storage, reason, acceptBrowser, gate, confirms,
                   loadAppArgs, href>>

\* lines 199-202: one strict await of the critical path.
CriticalAwait(p, next) ==
    /\ pc = "await_" \o p
    /\ Settled(p)
    /\ IF awaitOutcome(p) = "throw"
       THEN Catch(reason[p], console)
       ELSE /\ UNCHANGED iframe
            /\ pc' = next
            /\ UNCHANGED <<prom, calls, showErrorArgs, console>>
    /\ UNCHANGED <<environment, settledCall, storage, reason, acceptBrowser, gate, confirms,
                   loadAppArgs, href>>

AwaitOlm == CriticalAwait("olm", "await_skin")
AwaitSkin == CriticalAwait("skin", "await_theme")
AwaitTheme == CriticalAwait("theme", "await_language")
AwaitLanguage == CriticalAwait("language", "settled_persistLogs")

\* line 211: settled(persistLogsPromise) has returned and start() runs on to the
\* app handoff.
AppHandoff ==
    /\ pc = "after_persistLogs"
    /\ calls' = Append(calls, "loadApp")
    /\ loadAppArgs' = Append(loadAppArgs, loadAppArgument(fragparts))
    /\ prom' = [prom EXCEPT !["loadApp"] = "pending"]
    /\ pc' = "await_loadApp"
    /\ UNCHANGED <<environment, settledCall, storage, reason, acceptBrowser, gate, confirms, href,
                   console, showErrorArgs, iframe>>

\* line 211: loadApp settles.
AwaitLoadApp ==
    /\ pc = "await_loadApp"
    /\ Settled("loadApp")
    /\ IF awaitOutcome("loadApp") = "throw"
       THEN Catch(reason["loadApp"], console)
       ELSE /\ UNCHANGED iframe
            /\ pc' = "done"
            /\ UNCHANGED <<prom, calls, showErrorArgs, console>>
    /\ UNCHANGED <<environment, settledCall, storage, reason, acceptBrowser, gate, confirms,
                   loadAppArgs, href>>

\* Mutation: return await showError(...): a rejection of the showError of the
\* config catch block is caught by the outer catch block.
ShowErrorDoneCaught ==
    /\ pc \in {"return_showError", "catch_showError"}
    /\ Settled("showError")
    /\ IF prom["showError"] = "rejected" /\ pc = "return_showError"
       THEN Catch(reason["showError"], console)
       ELSE IF prom["showError"] = "rejected"
       THEN /\ FatalErrorPresenter(reason["showError"])
            /\ UNCHANGED <<prom, calls, showErrorArgs>>
       ELSE /\ pc' = "done"
            /\ UNCHANGED <<console, iframe, prom, calls, showErrorArgs>>
    /\ UNCHANGED <<environment, settledCall, storage, reason, acceptBrowser, gate, confirms,
                   loadAppArgs, href>>

\* lines 183, 192, 216: showError settles. Returned from the config catch block or
\* awaited inside the outer catch block, its rejection rejects start().
ShowErrorDone ==
    /\ pc \in {"return_showError", "catch_showError"}
    /\ Settled("showError")
    /\ IF prom["showError"] = "rejected"
       THEN FatalErrorPresenter(reason["showError"])
       ELSE /\ pc' = "done"
            /\ UNCHANGED <<console, iframe>>
    /\ UNCHANGED <<environment, settledCall, storage, prom, reason, acceptBrowser, gate, confirms,
                   calls, loadAppArgs, showErrorArgs, href>>

\* The user loads the page again: a new run over the same browser and store.
Reload ==
    /\ pc # "import"
    /\ ~startRunnable
    /\ pc' = freshRun.pc
    /\ prom' = freshRun.prom
    /\ reason' = freshRun.reason
    /\ acceptBrowser' = freshRun.acceptBrowser
    /\ gate' = freshRun.gate
    /\ confirms' = freshRun.confirms
    /\ calls' = freshRun.calls
    /\ loadAppArgs' = freshRun.loadAppArgs
    /\ showErrorArgs' = freshRun.showErrorArgs
    /\ console' = freshRun.console
    /\ href' = freshRun.href
    /\ iframe' = freshRun.iframe
    /\ UNCHANGED <<environment, settledCall, storage>>

Next ==
    \/ Fulfil
    \/ Reject
    \/ ImportDone
    \/ RageshakeSettled
    \/ RedirectCheck
    \/ LoadConfigSettled
    \/ ConfigSettled
    \/ SkinSettled
    \/ ThemeSettled
    \/ LanguageSettled
    \/ CompatibilityGate
    \/ Confirm
    \/ ConfigHardCheck
    \/ AwaitOlm
    \/ AwaitSkin
    \/ AwaitTheme
    \/ AwaitLanguage
    \/ PersistLogsSettled
    \/ AppHandoff
    \/ AwaitLoadApp
    \/ ShowErrorDone
    \/ Reload

Spec == Init /\ [][Next]_vars

\* The redirect check over every fragment, browser and cookie, with loaders that
\* all succeed once the check has been passed.
NextRedirect ==
    \/ Fulfil
    \/ RejectEarly
    \/ ImportDone
    \/ RageshakeSettled
    \/ RedirectCheck
    \/ LoadConfigSettled
    \/ ConfigSettled
    \/ SkinSettled
    \/ ThemeSettled
    \/ LanguageSettled
    \/ CompatibilityGate
    \/ Confirm
    \/ ConfigHardCheck
    \/ AwaitOlm
    \/ AwaitSkin
    \/ AwaitTheme
    \/ AwaitLanguage
    \/ PersistLogsSettled
    \/ AppHandoff
    \/ AwaitLoadApp
    \/ Reload

SpecRedirect == InitRedirect /\ [][NextRedirect]_vars

(* ------------------------------------------------------------------ *)
(* The evaluation of the module (lines 83 and 222), for every          *)
(* window.Modernizr                                                    *)
(* ------------------------------------------------------------------ *)

\* The module is about to be evaluated: line 83 has not run, supportedBrowser is
\* not yet initialised and nothing has read it.
InitFeatures ==
    /\ Modernizr \in Modernizrs
    /\ supportedBrowser = FALSE
    /\ hasLocalStorage = TRUE
    /\ storage = Null
    /\ fragparts = Fragment(Undefined, "")
    /\ userAgent = DesktopAgent
    /\ MSStream = Undefined
    /\ cookie = ""
    /\ pc = "load"
    /\ prom = [p \in Promises |-> "unstarted"]
    /\ reason = freshRun.reason
    /\ acceptBrowser = freshRun.acceptBrowser
    /\ gate = freshRun.gate
    /\ confirms = freshRun.confirms
    /\ calls = freshRun.calls
    /\ loadAppArgs = freshRun.loadAppArgs
    /\ showErrorArgs = freshRun.showErrorArgs
    /\ console = <<>>
    /\ href = freshRun.href
    /\ iframe = freshRun.iframe
    /\ promises = <<>>
    /\ awaiting = 1
    /\ settledPromise = "fulfilled"
    /\ completed = <<>>

\* line 83, then line 222: supportedBrowser is assigned and start() is called and
\* suspends on the import.
ModuleEvaluation ==
    /\ pc = "load"
    /\ supportedBrowser' = checkBrowserFeatures(Modernizr).returns
    /\ console' = checkBrowserFeatures(Modernizr).log
    /\ pc' = freshRun.pc
    /\ prom' = freshRun.prom
    /\ UNCHANGED <<hasLocalStorage, fragparts, userAgent, MSStream, cookie, Modernizr,
                   settledCall, storage, reason, acceptBrowser, gate, confirms, calls,
                   loadAppArgs, showErrorArgs, href, iframe>>

NextFeatures == ModuleEvaluation

SpecFeatures == InitFeatures /\ [][NextFeatures]_vars

(* ------------------------------------------------------------------ *)
(* settled(...promises) (lines 32-40), called on its own with up to    *)
(* MaxPromises pending promises that settle in any order               *)
(* ------------------------------------------------------------------ *)

\* The reason the k-th argument rejects with.
PromiseError(k) == Reason(Undefined, ErrObj(FALSE, "promise " \o ToString(k) \o " failed"))

\* Mutation: the arguments are visited from the last to the first.
argumentOfTurnReversed(i) == Len(promises) + 1 - i

\* line 33: the argument the i-th turn of the for...of loop takes
argumentOfTurn(i) == i

\* Mutation: the await stands outside a try block.
awaitInTryUncaught(state) == IF state = "rejected" THEN "throw" ELSE "continue"

\* lines 34-38: await prom inside try: a rejection is caught
awaitInTry(state) == IF state = "rejected" THEN "caught" ELSE "continue"

\* settled() has been called and is suspended on its first argument; without
\* arguments it has returned.
InitSettled ==
    /\ Modernizr = ModernBrowser
    /\ supportedBrowser = TRUE
    /\ hasLocalStorage = TRUE
    /\ storage = Null
    /\ fragparts = Fragment(Undefined, "")
    /\ userAgent = DesktopAgent
    /\ MSStream = Undefined
    /\ cookie = ""
    /\ pc = "settled"
    /\ prom = [p \in Promises |-> "unstarted"]
    /\ reason = freshRun.reason
    /\ acceptBrowser = freshRun.acceptBrowser
    /\ gate = freshRun.gate
    /\ confirms = freshRun.confirms
    /\ calls = freshRun.calls
    /\ loadAppArgs = freshRun.loadAppArgs
    /\ showErrorArgs = freshRun.showErrorArgs
    /\ console = <<>>
    /\ href = freshRun.href
    /\ iframe = freshRun.iframe
    /\ \E n \in 0..MaxPromises : promises = [k \in 1..n |-> "pending"]
    /\ awaiting = 1
    /\ settledPromise = IF promises = <<>> THEN "fulfilled" ELSE "pending"
    /\ completed = <<>>

run == <<supportedBrowser, hasLocalStorage, fragparts, userAgent, MSStream, cookie, Modernizr,
         storage, pc, prom, reason, acceptBrowser, gate, confirms, calls, loadAppArgs,
         showErrorArgs, href, iframe>>

\* An argument of settled() fulfils.
PromiseFulfils ==
    \E k \in 1..Len(promises) :
        /\ pc = "settled"
        /\ promises[k] = "pending"
        /\ promises' = [promises EXCEPT ![k] = "fulfilled"]
        /\ completed' = Append(completed, k)
        /\ UNCHANGED <<run, console, awaiting, settledPromise>>

\* An argument of settled() rejects.
PromiseRejects ==
    \E k \in 1..Len(promises) :
        /\ pc = "settled"
        /\ promises[k] = "pending"
        /\ promises' = [promises EXCEPT ![k] = "rejected"]
        /\ completed' = Append(completed, k)
        /\ UNCHANGED <<run, console, awaiting, settledPromise>>

\* lines 33-39: the awaited argument has settled and the loop takes one turn: a
\* rejection is caught and logged, and after the last argument settled() returns.
SettledResume ==
    /\ pc = "settled"
    /\ settledPromise = "pending"
    /\ awaiting <= Len(promises)
    /\ promises[argumentOfTurn(awaiting)] # "pending"
    /\ LET k == argumentOfTurn(awaiting)
           outcome == awaitInTry(promises[k])
       IN  IF outcome = "throw"
           THEN /\ settledPromise' = "rejected"
                /\ UNCHANGED <<console, awaiting>>
           ELSE /\ console' = IF outcome = "caught"
                              THEN Append(console, LogError("", PromiseError(k)))
                              ELSE console
                /\ awaiting' = awaiting + 1
                /\ settledPromise' = IF awaiting = Len(promises) THEN "fulfilled"
                                     ELSE "pending"
    /\ UNCHANGED <<run, promises, completed>>

NextSettled ==
    \/ PromiseFulfils
    \/ PromiseRejects
    \/ SettledResume

\* The continuation of settled() is a microtask: it runs once the awaited
\* argument has settled.
SpecSettled == InitSettled /\ [][NextSettled]_vars /\ WF_vars(SettledResume)

(* ------------------------------------------------------------------ *)
(* One run of start() to its end, under fairness: the page is not      *)
(* loaded again, every promise that is pending settles, the user       *)
(* confirms on the surface, and the continuation of start() runs when  *)
(* the promise it awaits has settled.                                  *)
(* ------------------------------------------------------------------ *)

\* The promise p settles.
Settle(p) ==
    \/ RejectOf(p)
    \/ Fulfil /\ prom[p] = "pending" /\ prom'[p] = "fulfilled"

\* A step of start() itself.
StartStep ==
    \/ ImportDone
    \/ RageshakeSettled
    \/ RedirectCheck
    \/ LoadConfigSettled
    \/ ConfigSettled
    \/ SkinSettled
    \/ ThemeSettled
    \/ LanguageSettled
    \/ CompatibilityGate
    \/ ConfigHardCheck
    \/ AwaitOlm
    \/ AwaitSkin
    \/ AwaitTheme
    \/ AwaitLanguage
    \/ PersistLogsSettled
    \/ AppHandoff
    \/ AwaitLoadApp
    \/ ShowErrorDone

\* A desktop browser following a deep link, and an Android browser that is sent
\* to the mobile guide.
InitRun ==
    \/ InitWith({Fragment("xyz", "/room/!abc:example.org")}, {DesktopAgent}, {Undefined}, {""})
    \/ InitWith({Fragment(Undefined, "")}, {AndroidAgent}, {Undefined}, {""})

NextRun ==
    \/ Fulfil
    \/ Reject
    \/ Confirm
    \/ StartStep

SpecRun ==
    /\ InitRun
    /\ [][NextRun]_vars
    /\ \A p \in Promises : WF_vars(Settle(p))
    /\ WF_vars(Confirm)
    /\ WF_vars(StartStep)

(* ------------------------------------------------------------------ *)
(* Vocabulary of the properties                                        *)
(* ------------------------------------------------------------------ *)

invoked(f) == \E i \in 1..Len(calls) : calls[i] = f
timesInvoked(f) == Cardinality({i \in 1..Len(calls) : calls[i] = f})

\* start() has run the redirect check of lines 115-132.
pastRedirectCheck ==
    prom["init"] = "fulfilled" /\ pc \notin {"import", "settled_rageshake", "after_rageshake"}

\* The run has ended without a redirect.
ended == prom["init"] = "fulfilled" /\ pc \in {"done", "fatal"}

\* The acknowledgment flag is set in durable storage.
flagStored == Truthy(storage)

CriticalLoads == {"config", "olm", "skin", "theme", "language"}

(* ------------------------------------------------------------------ *)
(* C1: the app handoff and the acknowledgment flag                     *)
(* ------------------------------------------------------------------ *)

\* C1 as claimed: whenever loadApp has been invoked, the feature verdict is true
\* or the acknowledgment flag is set in durable storage.
C1_HandoffNeedsVerdictOrStoredFlag ==
    invoked("loadApp") => (supportedBrowser \/ flagStored)

\* C1 amended: whenever loadApp has been invoked, the feature verdict is true, or
\* the flag is set in durable storage, or the browser has no localStorage and the
\* user has confirmed on the incompatible-browser surface in this run.
C1_HandoffNeedsVerdictFlagOrConfirmation ==
    invoked("loadApp") =>
        \/ supportedBrowser
        \/ flagStored
        \/ ~hasLocalStorage /\ confirms > 0 /\ invoked("showIncompatibleBrowser")

\* An unsupported browser reaches the handoff on a flag the confirmation stored.
C1_Witness ==
    /\ invoked("loadApp")
    /\ ~supportedBrowser
    /\ hasLocalStorage /\ flagStored /\ confirms > 0

(* ------------------------------------------------------------------ *)
(* C2: no confirmation, no app                                         *)
(* ------------------------------------------------------------------ *)

\* C2: while acceptBrowser is false and the confirmation callback has not been
\* called, start() stays suspended at the gate and loadApp has not been invoked,
\* whatever the loaders did.
C2_NoConfirmationNoApp ==
    (invoked("showIncompatibleBrowser") /\ confirms = 0) =>
        /\ ~acceptBrowser
        /\ pc = "gate"
        /\ ~invoked("loadApp")
        /\ prom["loadApp"] = "unstarted"

\* Every load has fulfilled and the run still waits for the user.
C2_Witness ==
    /\ invoked("showIncompatibleBrowser") /\ confirms = 0
    /\ \A p \in CriticalLoads \cup {"persistLogs"} : prom[p] = "fulfilled"

(* ------------------------------------------------------------------ *)
(* C3: the critical path                                               *)
(* ------------------------------------------------------------------ *)

\* C3: loadApp is invoked only when the config, crypto-engine, skin, theme and
\* language loads have all fulfilled; with any of them rejected it is not invoked.
C3_HandoffNeedsCriticalLoads ==
    /\ invoked("loadApp") => \A p \in CriticalLoads : prom[p] = "fulfilled"
    /\ (\E p \in CriticalLoads : prom[p] = "rejected") => ~invoked("loadApp")

\* A skin rejection that settled() swallowed and logged stops the run later, at the
\* strict await, with no handoff.
C3_Witness ==
    /\ pc = "done"
    /\ prom["skin"] = "rejected"
    /\ \A p \in CriticalLoads \ {"skin"} : prom[p] = "fulfilled"
    /\ \E i \in 1..Len(console) : console[i] = LogError("", reason["skin"])
    /\ ~invoked("loadApp")

(* ------------------------------------------------------------------ *)
(* C4, C5: the mobile redirect                                         *)
(* ------------------------------------------------------------------ *)

matchesIosPattern == userAgent = IosAgent
matchesAndroidPattern == userAgent = AndroidAgent

redirected == pc = "redirected" /\ href = "mobile_guide/"

\* C4 as claimed: with no client_secret parameter, an empty location, a user agent
\* matching the iOS or the Android pattern and no opt-out cookie, nothing of the
\* init module is ever invoked and the redirect check ends in the redirect.
C4_MobileRedirects ==
    ( /\ fragparts.params.client_secret = Undefined
      /\ fragparts.location = ""
      /\ matchesIosPattern \/ matchesAndroidPattern
      /\ cookie # OptOut )
    => /\ calls = <<>>
       /\ pastRedirectCheck => redirected

\* C4 amended: the same, for a user agent that matches the Android pattern, or
\* matches the iOS pattern while window.MSStream is not set.
C4_MobileRedirectsUnlessMSStream ==
    ( /\ fragparts.params.client_secret = Undefined
      /\ fragparts.location = ""
      /\ (matchesIosPattern /\ MSStream = Undefined) \/ matchesAndroidPattern
      /\ cookie # OptOut )
    => /\ calls = <<>>
       /\ pastRedirectCheck => redirected

\* An Android browser has been sent to the mobile guide.
C4_Witness ==
    /\ fragparts.params.client_secret = Undefined
    /\ fragparts.location = ""
    /\ matchesAndroidPattern
    /\ cookie # OptOut
    /\ redirected
    /\ calls = <<>>

proceeds == Len(calls) >= 3 /\ SubSeq(calls, 1, 3) = <<"loadOlm", "preparePlatform", "loadConfig">>

\* C5 as claimed: with a client_secret parameter present, or a non-empty location,
\* or the opt-out cookie, or a user agent that is not a mobile one, there is no
\* redirect and the run goes on to loadOlm, preparePlatform and loadConfig.
C5_NoRedirect ==
    ( \/ fragparts.params.client_secret # Undefined
      \/ fragparts.location # ""
      \/ cookie = OptOut
      \/ ~(matchesIosPattern \/ matchesAndroidPattern) )
    => /\ ~redirected /\ href = Undefined
       /\ pastRedirectCheck => proceeds

\* C5 amended: the same, for a client_secret parameter that is present and not
\* empty.
C5_NoRedirectNonEmptySecret ==
    ( \/ fragparts.params.client_secret \notin {Undefined, ""}
      \/ fragparts.location # ""
      \/ cookie = OptOut
      \/ ~(matchesIosPattern \/ matchesAndroidPattern) )
    => /\ ~redirected /\ href = Undefined
       /\ pastRedirectCheck => proceeds

\* An Android browser with the opt-out cookie and nothing else in the way of the
\* redirect has gone on to the config load.
C5_Witness ==
    /\ fragparts.params.client_secret = Undefined
    /\ fragparts.location = ""
    /\ matchesAndroidPattern
    /\ cookie = OptOut
    /\ pastRedirectCheck
    /\ proceeds

(* ------------------------------------------------------------------ *)
(* C6: the configuration error                                         *)
(* ------------------------------------------------------------------ *)

pastHardCheck ==
    pastRedirectCheck /\ pc \notin {"settled_config", "after_config", "settled_skin",
                                    "settled_theme", "settled_language", "after_language",
                                    "gate", "await_config"}

\* C6: once the config hard-check has met a rejected config load, showError has
\* been invoked exactly once and loadApp not at all, and the run is over or
\* waits for showError; for a SyntaxError the call has the misconfigured title and
\* two lines, the second carrying the parser's message; for any other rejection
\* it has the unable-to-load-config message alone.
C6_ConfigError ==
    (pastHardCheck /\ prom["config"] = "rejected") =>
        LET err == reason["config"].err
            args == showErrorArgs[1]
        IN  /\ calls[Len(calls)] = "showError"
            /\ timesInvoked("showError") = 1
            /\ Len(showErrorArgs) = 1
            /\ ~invoked("loadApp")
            /\ pc \in {"return_showError", "done", "fatal"}
            /\ IF err.defined /\ err.isSyntaxError
               THEN /\ args.title.text = "Your Element is misconfigured"
                    /\ Len(args.messages) = 2
                    /\ args.messages[2].text = "The message from the parser is: %(message)s"
                    /\ err.message # "" => args.messages[2].message = err.message
                    /\ err.message = "" => args.messages[2].message = "Invalid JSON"
               ELSE /\ args.title.text =
                           "Unable to load config file: please refresh the page to try again."
                    /\ args.messages = <<>>

\* A config load rejected with a SyntaxError has been shown with the parser's
\* message.
C6_Witness ==
    /\ pastHardCheck
    /\ reason["config"] = ConfigSyntaxError
    /\ Len(showErrorArgs) = 1
    /\ showErrorArgs[1].messages[2].message = "Unexpected token } in JSON"

(* ------------------------------------------------------------------ *)
(* C7: log persistence is best effort                                  *)
(* ------------------------------------------------------------------ *)

firstRejected(ps) ==
    IF \E i \in 1..Len(ps) : prom[ps[i]] = "rejected"
    THEN ps[CHOOSE i \in 1..Len(ps) :
                /\ prom[ps[i]] = "rejected"
                /\ \A j \in 1..(i - 1) : prom[ps[j]] # "rejected"]
    ELSE "none"

criticalFailure == firstRejected(<<"olm", "skin", "theme", "language", "loadApp">>)

messageOf(err) ==
    IF err.translatedMessage \in {Undefined, ""}
    THEN _t("Unexpected error preparing the app. See console for details.", Undefined)
    ELSE Raw(err.translatedMessage)

\* What an ended run has invoked, told from everything but the log storage:
\* the confirmation, the config load, the critical loads and loadApp.
expectedCalls ==
    <<"loadOlm", "preparePlatform", "loadConfig",
      "setupLogStorage", "loadLanguage", "loadTheme", "loadSkin">>
    \o (IF confirms > 0 THEN <<"showIncompatibleBrowser">> ELSE <<>>)
    \o (IF prom["config"] = "rejected" THEN <<"showError">>
        ELSE IF criticalFailure \in {"olm", "skin", "theme", "language"} THEN <<"showError">>
        ELSE IF criticalFailure = "loadApp" THEN <<"loadApp", "showError">>
        ELSE <<"loadApp">>)

surfaced(err) ==
    \E i \in 1..Len(showErrorArgs) :
        \/ showErrorArgs[i].title.text = err.translatedMessage
        \/ \E j \in 1..Len(showErrorArgs[i].messages) :
               showErrorArgs[i].messages[j].text = err.translatedMessage

\* C7: what an ended run has invoked, and with which arguments, is fixed by the
\* inputs other than rageshakePromise and the promise of setupLogStorage(): the
\* calls are those of expectedCalls whether the two fulfilled or rejected, and
\* their rejection reason is in no showError call.
C7_LogStorageBestEffort ==
    /\ ended =>
        /\ calls = expectedCalls
        /\ Len(loadAppArgs) = timesInvoked("loadApp")
        /\ Len(showErrorArgs) = timesInvoked("showError")
        /\ (prom["config"] # "rejected" /\ criticalFailure # "none") =>
               showErrorArgs[1].messages = <<messageOf(reason[criticalFailure])>>
    /\ ~surfaced(LogStorageError)
    /\ (pc = "redirected") => calls = <<>>

\* Both log-storage promises rejected and the app was loaded all the same.
C7_Witness ==
    /\ pc = "done"
    /\ prom["rageshake"] = "rejected"
    /\ prom["persistLogs"] = "rejected"
    /\ prom["loadApp"] = "fulfilled"
    /\ showErrorArgs = <<>>

(* ------------------------------------------------------------------ *)
(* C8: the outer catch                                                 *)
(* ------------------------------------------------------------------ *)

\* The promise whose rejection start() met at a throwing await in an ended run:
\* the import (stage 1), the config hard-check (stage 8), the critical path
\* (stage 9) or loadApp (stage 10).
raised ==
    IF prom["init"] = "rejected" /\ pc = "fatal" THEN "init"
    ELSE IF ~ended THEN "none"
    ELSE IF prom["config"] = "rejected" THEN "config"
    ELSE criticalFailure

shownByOuterCatch(err) ==
    /\ timesInvoked("showError") = 1
    /\ showErrorArgs =
          <<[title |-> _t("Your Element is misconfigured", Undefined),
             messages |-> <<messageOf(err)>>]>>

\* C8 as claimed: a rejection raised anywhere from the import of stage 1 to
\* loadApp of stage 10 is shown by exactly one showError call with the
\* misconfigured title and the error's translatedMessage or the default string.
C8_EveryRejectionShownByOuterCatch ==
    LET p == raised IN
    p # "none" => shownByOuterCatch(reason[p])

\* C8 amended: a rejection raised by the strict awaits of the crypto engine, the
\* skin, the theme and the language (stage 9) or by loadApp (stage 10) is shown by
\* exactly one showError call with the misconfigured title, whose only line is the
\* error's translatedMessage if it has a non-empty one and the default string
\* otherwise.
C8_CriticalRejectionShownByOuterCatch ==
    LET p == raised IN
    p \in {"olm", "skin", "theme", "language", "loadApp"} => shownByOuterCatch(reason[p])

\* A rejected loadApp carrying a translatedMessage has been shown with it.
C8_Witness ==
    /\ ended
    /\ raised = "loadApp"
    /\ reason["loadApp"] = TranslatedError
    /\ showErrorArgs[1].messages = <<Raw("translated detail")>>

(* ------------------------------------------------------------------ *)
(* C9, C10: the fatal error presenter                                  *)
(* ------------------------------------------------------------------ *)

presented == iframe # Undefined

\* C9: the iframe is attached only when start() rejected outside its try block,
\* because the import rejected or because showError rejected; rejected loads
\* with a showError that does not reject never attach it.
C9_PresenterOnlyOutsideTry ==
    presented => (prom["init"] = "rejected" \/ prom["showError"] = "rejected")

\* The import failed and the iframe is attached with nothing else invoked.
C9_Witness ==
    /\ presented
    /\ prom["init"] = "rejected"
    /\ calls = <<>>

\* C10: the document of the iframe is unable-to-load when supportedBrowser is true
\* and incompatible-browser when it is false, whatever the acknowledgment.
C10_DocumentByVerdict ==
    presented =>
        /\ supportedBrowser => iframe = "static/unable-to-load.html"
        /\ ~supportedBrowser => iframe = "static/incompatible-browser.html"

\* The user acknowledged, the flag is stored, and the iframe still shows the
\* incompatible-browser document.
C10_Witness ==
    /\ presented
    /\ ~supportedBrowser
    /\ confirms > 0 /\ flagStored
    /\ iframe = "static/incompatible-browser.html"

(* ------------------------------------------------------------------ *)
(* C11, C12: settled()                                                 *)
(* ------------------------------------------------------------------ *)

terminal(k) == promises[k] \in {"fulfilled", "rejected"}
everyPromiseTerminal == \A k \in 1..Len(promises) : terminal(k)

\* How many console lines carry the rejection of the k-th argument.
timesLogged(k) ==
    Cardinality({i \in 1..Len(console) : console[i] = LogError("", PromiseError(k))})

\* The position of the k-th argument in the order of completion.
completionRank(k) == CHOOSE i \in 1..Len(completed) : completed[i] = k

\* C11: settled() never rejects; when its promise has fulfilled every argument is
\* terminal, every rejected argument has been logged once and no fulfilled one
\* has; a terminal argument keeps its outcome for good; and once every argument
\* is terminal the promise of settled() fulfils.
C11_SettledNeverRejects ==
    /\ [](/\ settledPromise # "rejected"
          /\ settledPromise = "fulfilled" =>
                /\ everyPromiseTerminal
                /\ \A k \in 1..Len(promises) :
                       timesLogged(k) = IF promises[k] = "rejected" THEN 1 ELSE 0
                /\ Len(console) = Cardinality({k \in 1..Len(promises) :
                                                  promises[k] = "rejected"}))
    /\ [][\A k \in 1..Len(promises) : terminal(k) => promises'[k] = promises[k]]_vars
    /\ (everyPromiseTerminal ~> settledPromise = "fulfilled")

\* The first and the third of three arguments rejected, the second fulfilled, and
\* settled() has fulfilled with both rejections logged.
C11_Witness ==
    /\ pc = "settled"
    /\ promises = <<"rejected", "fulfilled", "rejected">>
    /\ settledPromise = "fulfilled"
    /\ timesLogged(1) = 1 /\ timesLogged(3) = 1

\* C12: the console lines of settled() are those of the rejected arguments it has
\* passed, in the order of the argument list, whatever the order of completion.
C12_LoggedInArgumentOrder ==
    pc = "settled" =>
        \E ks \in [1..Len(console) -> 1..Len(promises)] :
            /\ \A a \in 1..Len(console) : console[a] = LogError("", PromiseError(ks[a]))
            /\ \A a, b \in 1..Len(console) : a < b => ks[a] < ks[b]
            /\ \A a \in 1..Len(console) : promises[ks[a]] = "rejected" /\ ks[a] < awaiting
            /\ \A k \in 1..Len(promises) :
                   (k < awaiting /\ promises[k] = "rejected") =>
                       \E a \in 1..Len(console) : ks[a] = k

\* The third argument rejected before the first and is logged after it.
C12_Witness ==
    /\ pc = "settled"
    /\ Len(promises) >= 3
    /\ promises[1] = "rejected" /\ promises[3] = "rejected"
    /\ completionRank(3) < completionRank(1)
    /\ Len(console) >= 2
    /\ console[1] = LogError("", PromiseError(1))
    /\ console[Len(console)] = LogError("", PromiseError(3))

(* ------------------------------------------------------------------ *)
(* C13, C14, C15: checkBrowserFeatures()                               *)
(* ------------------------------------------------------------------ *)

\* line 83 has run
probed == pc # "load"

\* The values under the keys of window.Modernizr, in registration order.
registered == featureList(Modernizr)

allTrue == \A i \in 1..Len(registered) : registered[i].value = "true"
someFalse == \E i \in 1..Len(registered) : registered[i].value = "false"
someUndefined == \E i \in 1..Len(registered) : registered[i].value = Undefined

\* The index of the first key whose value is undefined, or one past the last key.
firstUndefined ==
    IF someUndefined
    THEN CHOOSE i \in 1..Len(registered) :
             /\ registered[i].value = Undefined
             /\ \A j \in 1..(i - 1) : registered[j].value # Undefined
    ELSE Len(registered) + 1

isFalseEntry(e) == e.value = "false"
isMissingFeatureLine(l) == l.text = "Browser missing feature: '%s'"
isNoResultLine(l) ==
    l.text = "Looked for feature '%s' but Modernizr has no results for this. Has it been configured correctly?"

keysOf(entries) == [i \in 1..Len(entries) |-> entries[i].key]

\* The keys the console reports as missing features, in the order of the lines.
reportedMissing == keysOf(SelectSeq(console, isMissingFeatureLine))

\* C13: with the detection library present and every registered feature true,
\* checkBrowserFeatures returns true and logs nothing; with the library absent it
\* returns false and logs the 'Modernizr global is missing' line alone.
C13_AllFeaturesPass ==
    probed =>
        /\ (Modernizr.defined /\ allTrue) => (supportedBrowser /\ console = <<>>)
        /\ ~Modernizr.defined =>
               /\ ~supportedBrowser
               /\ Len(console) = 1
               /\ console[1].text = "Cannot check features - Modernizr global is missing."
               /\ checkBrowserFeatures(Modernizr).read = 0

\* A browser with every feature, the most that are registered, has passed.
C13_Witness ==
    /\ probed
    /\ Modernizr.defined /\ allTrue
    /\ Len(Modernizr.features) = MaxFeatures
    /\ supportedBrowser

\* C14 as claimed: with at least one false entry, checkBrowserFeatures returns
\* false and the missing-feature lines name exactly the false-valued keys, in
\* registration order.
C14_MissingAreTheFalseKeys ==
    (probed /\ Modernizr.defined /\ someFalse) =>
        /\ ~supportedBrowser
        /\ reportedMissing = keysOf(SelectSeq(registered, isFalseEntry))

\* C14 amended: with at least one false entry, checkBrowserFeatures returns
\* false and the missing-feature lines name exactly the false-valued keys
\* registered before the first key whose value is undefined, all of them when no
\* value is undefined, in registration order.
C14_MissingAreTheFalseKeysBeforeUndefined ==
    (probed /\ Modernizr.defined /\ someFalse) =>
        /\ ~supportedBrowser
        /\ reportedMissing =
               keysOf(SelectSeq(SubSeq(registered, 1, firstUndefined - 1), isFalseEntry))
        /\ ~someUndefined =>
               /\ reportedMissing = keysOf(SelectSeq(registered, isFalseEntry))
               /\ Len(console) = Len(reportedMissing)
               /\ checkBrowserFeatures(Modernizr).read = Len(registered)

\* Two false entries with a true one between them are both reported.
C14_Witness ==
    /\ probed
    /\ Modernizr = ModernizrOf(<<"false", "true">>, <<"true", "true", "false">>)
    /\ reportedMissing = <<"es6collections", "objectfromentries">>
    /\ ~supportedBrowser

\* C15: with a key whose value is undefined, checkBrowserFeatures returns false at
\* the first such key: the last console line is the misconfiguration line for it,
\* no key after it is read or logged, and the lines before it name the
\* false-valued keys registered before it.
C15_UndefinedStopsTheLoop ==
    (probed /\ Modernizr.defined /\ someUndefined) =>
        /\ ~supportedBrowser
        /\ checkBrowserFeatures(Modernizr).read = firstUndefined
        /\ console[Len(console)] = NoResultLine(registered[firstUndefined].key)
        /\ Len(SelectSeq(console, isNoResultLine)) = 1
        /\ SubSeq(console, 1, Len(console) - 1) = SelectSeq(console, isMissingFeatureLine)
        /\ reportedMissing =
               keysOf(SelectSeq(SubSeq(registered, 1, firstUndefined - 1), isFalseEntry))
        /\ \A i \in 1..Len(console) :
               \A j \in (firstUndefined + 1)..Len(registered) :
                   console[i].key # registered[j].key

\* A false entry, then an undefined one, then a false one that is not reported.
C15_Witness ==
    /\ probed
    /\ Modernizr = ModernizrOf(<<"false", Undefined>>, <<"true", "false", "true">>)
    /\ console = <<MissingFeatureLine("es6collections"), NoResultLine("flexbox")>>
    /\ ~supportedBrowser

(* ------------------------------------------------------------------ *)
(* C16: what the app handoff is given                                  *)
(* ------------------------------------------------------------------ *)

\* The routing path the i-th loadApp call was given, if any.
forwardedLocation(i) ==
    IF "location" \in DOMAIN loadAppArgs[i] THEN loadAppArgs[i].location ELSE Undefined

\* The named parameters the i-th loadApp call was given, if any.
forwardedParams(i) ==
    IF "params" \in DOMAIN loadAppArgs[i] THEN loadAppArgs[i].params ELSE loadAppArgs[i]

\* C16 as claimed: the loadApp call is given the named parameters and the routing
\* path of the parsed fragment, both unchanged.
C16_ParamsAndLocationForwarded ==
    invoked("loadApp") =>
        /\ Len(loadAppArgs) = 1
        /\ forwardedParams(1) = fragparts.params
        /\ forwardedLocation(1) = fragparts.location

\* C16 amended: the loadApp call is given the named parameters of the parsed
\* fragment, client_secret included, unchanged and nothing else: the routing path
\* is not passed.
C16_ParamsForwarded ==
    invoked("loadApp") =>
        /\ loadAppArgs = <<fragparts.params>>
        /\ loadAppArgs[1].client_secret = fragparts.params.client_secret
        /\ forwardedLocation(1) = Undefined

\* The app has been handed the client_secret of a deep link.
C16_Witness ==
    /\ invoked("loadApp")
    /\ fragparts = Fragment("xyz", "/room/!abc:example.org")
    /\ loadAppArgs[1].client_secret = "xyz"

(* ------------------------------------------------------------------ *)
(* C17: the acknowledgment flag across sessions                        *)
(* ------------------------------------------------------------------ *)

\* The confirmation callback of the incompatible-browser surface runs in this
\* step.
confirmationStep == invoked("showIncompatibleBrowser") /\ confirms' = confirms + 1

\* A load of this run has rejected.
someLoadRejected ==
    \E p \in {"rageshake", "olm", "config", "persistLogs", "language", "theme", "skin",
              "loadApp"} : prom[p] = "rejected"

\* The flag is written only in the confirmation callback, where it is set; it is
\* never cleared; and a run that started with the flag set does not show the
\* incompatible-browser surface.
flagLifecycle ==
    /\ [][storage' # storage => (confirmationStep /\ storage' = StringOfTrue)]_vars
    /\ [][flagStored => storage' = storage]_vars
    /\ []((flagStored /\ confirms = 0) => ~invoked("showIncompatibleBrowser"))
    /\ [][(flagStored /\ ~invoked("showIncompatibleBrowser"))
              => ~invoked("showIncompatibleBrowser")']_vars

\* C17 as claimed: the lifecycle above, and no step of a run whose verdict
\* passes, that has redirected or in which a load has rejected changes the flag.
C17_FlagLifecycle ==
    /\ flagLifecycle
    /\ [][(supportedBrowser \/ redirected \/ someLoadRejected) => storage' = storage]_vars

\* C17 amended: the lifecycle above, and no step of a run whose verdict passes or
\* that has redirected changes the flag; a run in which a load has rejected
\* changes it in the confirmation callback only.
C17_FlagLifecycleUnlessConfirmed ==
    /\ flagLifecycle
    /\ [][(supportedBrowser \/ redirected) => storage' = storage]_vars
    /\ [][(someLoadRejected /\ ~confirmationStep) => storage' = storage]_vars

\* A later session of an unsupported browser: the flag is set, nothing was
\* confirmed in this run, and the app is loaded without the surface.
C17_Witness ==
    /\ ~supportedBrowser
    /\ flagStored
    /\ confirms = 0
    /\ invoked("loadApp")
    /\ ~invoked("showIncompatibleBrowser")
    /\ someLoadRejected

(* ------------------------------------------------------------------ *)
(* C18: the order of the stages                                        *)
(* ------------------------------------------------------------------ *)

StageOrder == <<"loadOlm", "preparePlatform", "loadConfig",
                "setupLogStorage", "loadLanguage", "loadTheme", "loadSkin">>
AfterConfig == {"setupLogStorage", "loadLanguage", "loadTheme", "loadSkin"}

\* The position of the first call of f.
firstCall(f) == CHOOSE i \in 1..Len(calls) : calls[i] = f /\ \A j \in 1..(i - 1) : calls[j] # f

\* C18: a run that is past the redirect check and was not redirected has called
\* loadOlm, then preparePlatform, then loadConfig; setupLogStorage,
\* loadLanguage, loadTheme and loadSkin are called only once the config load is
\* terminal, after loadConfig, and they have all been called once start() has
\* passed the settling of the config load, also when the config load rejected.
C18_StageOrder ==
    (pastRedirectCheck /\ ~redirected) =>
        /\ proceeds
        /\ prom["olm"] # "unstarted" /\ prom["config"] # "unstarted"
        /\ \A f \in AfterConfig :
               invoked(f) => (Settled("config") /\ firstCall("loadConfig") < firstCall(f))
        /\ (Settled("config") /\ pc \notin {"settled_config", "after_config"}) =>
               /\ Len(calls) >= 7
               /\ SubSeq(calls, 1, 7) = StageOrder
               /\ \A p \in {"persistLogs", "language", "theme", "skin"} : prom[p] # "unstarted"
        /\ \A i \in 1..Len(StageOrder) : timesInvoked(StageOrder[i]) <= 1

\* The config load rejected and the four later loads were started all the same.
C18_Witness ==
    /\ pastRedirectCheck
    /\ prom["config"] = "rejected"
    /\ Len(calls) >= 7
    /\ SubSeq(calls, 1, 7) = StageOrder
    /\ prom["skin"] = "pending"

(* ------------------------------------------------------------------ *)
(* C19: the loads an error surface needs have settled                  *)
(* ------------------------------------------------------------------ *)

SurfaceLoads == {"skin", "theme", "language"}

\* showError has been called by the config hard-check.
configErrorShown ==
    /\ invoked("showError")
    /\ prom["config"] = "rejected"
    /\ showErrorArgs[1] = configErrorArgs(reason["config"])

\* C19: when showIncompatibleBrowser has been invoked, or showError by the config
\* hard-check, the skin, theme and language loads are each fulfilled or rejected.
C19_SurfacesAfterSettling ==
    (invoked("showIncompatibleBrowser") \/ configErrorShown) =>
        \A p \in SurfaceLoads : Settled(p)

\* The gate and then the config error were shown with the skin and the language
\* rejected and the theme fulfilled.
C19_Witness ==
    /\ invoked("showIncompatibleBrowser")
    /\ configErrorShown
    /\ prom["skin"] = "rejected" /\ prom["theme"] = "fulfilled" /\ prom["language"] = "rejected"

(* ------------------------------------------------------------------ *)
(* C20: the compatibility gate                                         *)
(* ------------------------------------------------------------------ *)

\* start() has passed line 157.
reachedGate ==
    pastRedirectCheck /\ pc \notin {"redirected", "settled_config", "after_config",
                                    "settled_skin", "settled_theme", "settled_language",
                                    "after_language"}

\* An acknowledgment can be read from storage.
acknowledgmentReadable == hasLocalStorage /\ Truthy(storage)

\* The step in which start() passes line 157.
gateStep == pc = "after_language" /\ pc' \notin {"after_language", "import"}

\* What C20 says of the surface: it is first invoked in the step that reaches the
\* gate, and that step invokes it exactly when the verdict is false and no
\* acknowledgment is readable; it is invoked at most once; and until the
\* confirmation callback has run start() waits at the gate with neither
\* showError nor loadApp invoked.
gateShownWhenNeeded ==
    /\ [][(~invoked("showIncompatibleBrowser") /\ invoked("showIncompatibleBrowser")')
              => gateStep]_vars
    /\ [][gateStep => (invoked("showIncompatibleBrowser")'
                          <=> (~supportedBrowser /\ ~acknowledgmentReadable))]_vars
    /\ [](invoked("showIncompatibleBrowser") => reachedGate)
    /\ [](timesInvoked("showIncompatibleBrowser") <= 1)
    /\ []((invoked("showIncompatibleBrowser") /\ confirms = 0) =>
              /\ pc = "gate"
              /\ ~invoked("showError") /\ ~invoked("loadApp"))

\* C20 as claimed: the above, and a run that has gone on from the surface has
\* the flag in storage.
C20_GateAndPersistedFlag ==
    /\ gateShownWhenNeeded
    /\ []((invoked("showIncompatibleBrowser") /\ pc # "gate") => flagStored)

\* C20 amended: the above, and a run that has gone on from the surface has the
\* flag in storage if window.localStorage is available; without it the run
\* goes on with nothing stored.
C20_GateAndPersistedFlagIfStorage ==
    /\ gateShownWhenNeeded
    /\ []((invoked("showIncompatibleBrowser") /\ pc # "gate") =>
              /\ confirms > 0
              /\ hasLocalStorage => flagStored
              /\ ~hasLocalStorage => ~flagStored)
    /\ [][(confirmationStep /\ hasLocalStorage) => storage' = StringOfTrue]_vars

\* The user confirmed, the flag is stored and the run went on to load the app.
C20_Witness ==
    /\ invoked("showIncompatibleBrowser")
    /\ timesInvoked("showIncompatibleBrowser") = 1
    /\ confirms > 0
    /\ hasLocalStorage /\ flagStored
    /\ prom["loadApp"] = "fulfilled"

(* ------------------------------------------------------------------ *)
(* C21: every run ends                                                 *)
(* ------------------------------------------------------------------ *)

mobileRedirect == pc = "redirected" /\ href = "mobile_guide/"
appHandoff == pc = "done" /\ prom["loadApp"] = "fulfilled"
errorSurface == pc = "done" /\ invoked("showError") /\ prom["showError"] = "fulfilled"
fatalIframe == pc = "fatal" /\ iframe # Undefined

outcomes ==
    (IF mobileRedirect THEN {"redirect"} ELSE {}) \cup
    (IF appHandoff THEN {"handoff"} ELSE {}) \cup
    (IF errorSurface THEN {"error"} ELSE {}) \cup
    (IF fatalIframe THEN {"fatal"} ELSE {})

\* C21: with every promise settling, the user confirming and start() running on,
\* the run reaches a terminal outcome and stays there; it never has two of the
\* mobile redirect, the app handoff, a rendered showError surface and the fatal
\* iframe, and a run that is over has one.
C21_EveryRunEnds ==
    /\ <>[](Cardinality(outcomes) = 1)
    /\ [](Cardinality(outcomes) <= 1)
    /\ [](pc \in Terminal => Cardinality(outcomes) = 1)

\* An unsupported browser was confirmed and the run ended in the app handoff.
C21_Witness ==
    /\ appHandoff
    /\ invoked("showIncompatibleBrowser")
    /\ confirms > 0

(* ------------------------------------------------------------------ *)
(* C22: a load that never settles                                      *)
(* ------------------------------------------------------------------ *)

\* The load p has been started and has not settled.
hung(p) == prom[p] = "pending"

StartedLoads == {"rageshake", "olm", "config", "skin", "theme", "language", "persistLogs"}

\* An error surface has been rendered: showError has fulfilled, or the iframe is
\* attached.
errorRendered == prom["showError"] = "fulfilled" \/ presented

\* C22 as claimed: while any one of the started loads has not settled, loadApp
\* has not been invoked and no error surface has been rendered.
C22_HungLoadStallsEverything ==
    \A p \in StartedLoads :
        hung(p) => (~invoked("loadApp") /\ ~errorRendered)

\* C22 amended: while any one of the started loads has not settled, loadApp has
\* not been invoked; no error surface has been shown either while rageshake,
\* the config, the skin, the theme or the language has not settled; while the
\* crypto engine has not settled the only showError call is that of the config
\* hard-check, and while the log persistence has not settled it is that or the
\* one for a rejected crypto engine, skin, theme or language.
C22_HungLoadStallsHandoff ==
    /\ \A p \in StartedLoads : hung(p) => ~invoked("loadApp")
    /\ \A p \in {"rageshake", "config", "skin", "theme", "language"} :
           hung(p) => (~invoked("showError") /\ ~errorRendered)
    /\ (hung("olm") /\ invoked("showError")) =>
           (prom["config"] = "rejected" /\ showErrorArgs = <<configErrorArgs(reason["config"])>>)
    /\ (hung("persistLogs") /\ invoked("showError")) =>
           \/ prom["config"] = "rejected"
                  /\ showErrorArgs = <<configErrorArgs(reason["config"])>>
           \/ prom["config"] = "fulfilled"
                  /\ criticalFailure \in {"olm", "skin", "theme", "language"}
                  /\ showErrorArgs = <<catchErrorArgs(reason[criticalFailure])>>

\* The crypto engine never settled and the run ended on the config error.
C22_Witness ==
    /\ hung("olm")
    /\ pc = "done"
    /\ prom["config"] = "rejected"
    /\ prom["showError"] = "fulfilled"
    /\ ~invoked("loadApp")

(* ------------------------------------------------------------------ *)
(* C23: the precedence of the errors                                   *)
(* ------------------------------------------------------------------ *)

CriticalPath == {"olm", "skin", "theme", "language"}

\* The gate was needed in this run: the verdict is false and the flag, if set,
\* was set by the confirmation of this run.
gateNeeded == ~supportedBrowser /\ ~(acknowledgmentReadable /\ confirms = 0)

\* C23: a showError call is preceded by the incompatible-browser surface in
\* every run that needed the gate; once the hard-check has met a rejected config
\* load the one showError call is the configuration error, whichever of the
\* crypto engine, skin, theme and language rejected as well and in whatever
\* order, and no showError call carries the rejection of one of those.
C23_ErrorPrecedence ==
    /\ (invoked("showError") /\ gateNeeded) =>
           /\ invoked("showIncompatibleBrowser")
           /\ firstCall("showIncompatibleBrowser") < firstCall("showError")
    /\ (invoked("showError") /\ prom["config"] = "rejected") =>
           /\ showErrorArgs = <<configErrorArgs(reason["config"])>>
           /\ timesInvoked("showError") = 1
           /\ \A p \in CriticalPath :
                  prom[p] = "rejected" =>
                      \A i \in 1..Len(showErrorArgs) :
                          showErrorArgs[i] # catchErrorArgs(reason[p])
    /\ (pastHardCheck /\ prom["config"] = "rejected") => invoked("showError")

\* The config load and the crypto engine both rejected, behind the gate, and the
\* run ended on the configuration error alone.
C23_Witness ==
    /\ pc = "done"
    /\ invoked("showIncompatibleBrowser")
    /\ prom["config"] = "rejected"
    /\ prom["olm"] = "rejected" /\ reason["olm"] = TranslatedError
    /\ prom["skin"] = "rejected"
    /\ showErrorArgs = <<configErrorArgs(reason["config"])>>

(* ------------------------------------------------------------------ *)
(* C24: at most one handoff and one error                              *)
(* ------------------------------------------------------------------ *)

\* C24: loadApp and showError are each invoked at most once in a run; with
\* loadApp fulfilled showError has not been invoked; and where both have been
\* invoked, loadApp came first and rejected.
C24_AtMostOnce ==
    /\ timesInvoked("loadApp") <= 1
    /\ timesInvoked("showError") <= 1
    /\ Len(loadAppArgs) = timesInvoked("loadApp")
    /\ Len(showErrorArgs) = timesInvoked("showError")
    /\ prom["loadApp"] = "fulfilled" => ~invoked("showError")
    /\ (invoked("loadApp") /\ invoked("showError")) =>
           /\ prom["loadApp"] = "rejected"
           /\ firstCall("loadApp") < firstCall("showError")

\* loadApp rejected and showError was invoked after it, each once.
C24_Witness ==
    /\ timesInvoked("loadApp") = 1
    /\ timesInvoked("showError") = 1
    /\ prom["loadApp"] = "rejected"
    /\ prom["showError"] = "rejected"
    /\ pc = "fatal"

====
